---------------------------- MODULE Spec2Model ----------------------------
(***************************************************************************)
(* rmailer: a Message model, its MIME composer (Message.ToBytes) and the   *)
(* SMTP transport (Sender.Send), modelled from src/rmailer.go.             *)
(*                                                                         *)
(* Text is a sequence of atoms.  Line terminators ("\r", "\n"), the "--"   *)
(* of a delimiter, boundary tokens, base64 characters and body characters  *)
(* are atoms of their own; the fixed words of a format string are one atom *)
(* each.  Bytes (subject, file names, file contents) are numbers 0..255    *)
(* and reach the output only through base64.                               *)
(***************************************************************************)
EXTENDS Integers, Sequences, FiniteSets, TLC

VARIABLES
    msg,      \* the Message: From, To, CC, BCC, Subject, BodyText, BodyHtml, Attachments
    sender,   \* the Sender: UserName, Password, Host
    phase,    \* "building" | "composed" (Message lifecycle) | "sending" (a Send call)
    lastErr,  \* the error returned by the last AttachFile call ("nil": none)
    out,      \* the bytes returned by the last ToBytes call
    writer,   \* the multipart.Writer that call created (its random boundary)
    order,    \* the order in which that call's range over Attachments visited the keys
    pc,       \* position of the running Send call
    trace,    \* the steps the Send call has made, each with its outcome
    ret,      \* the value Send returned ("nil" or an error), "none" while running
    defers,   \* the deferred calls registered so far by the running Send
    closes,   \* the Close calls that have run
    logged    \* the RCPT errors written to the log

vars == <<msg, sender, phase, lastErr, out, writer, order, pc, trace, ret, defers, closes, logged>>

-----------------------------------------------------------------------------
(* Bounds of the model *)

\* longest list handed to SetToFromStrings
MaxRcpt == 1
\* most attachments a Message holds
MaxAttach == 2

-----------------------------------------------------------------------------
(* Helpers on sequences *)

Range(s) == {s[i] : i \in 1..Len(s)}

SeqsUpTo(S, n) == UNION {[1..k -> S] : k \in 0..n}

RECURSIVE Concat(_)
Concat(ss) == IF ss = <<>> THEN <<>> ELSE Head(ss) \o Concat(Tail(ss))

RECURSIVE Join(_, _)
Join(ss, sep) ==
    IF ss = <<>> THEN <<>>
    ELSE IF Len(ss) = 1 THEN Head(ss)
    ELSE Head(ss) \o sep \o Join(Tail(ss), sep)

Perms(S) == {f \in [1..Cardinality(S) -> S] : \A i, j \in DOMAIN f : i # j => f[i] # f[j]}

IsPrefix(p, s) == Len(p) <= Len(s) /\ \A i \in 1..Len(p) : p[i] = s[i]

-----------------------------------------------------------------------------
(* Constants of src/rmailer.go, lines 21-33 *)

CR == "\r"
LF == "\n"
DD == "--"
CT == "Content-Type: "

ContentTypeMultipartMixed == "multipart/mixed"
ContentTypeMultipartAlternative == "multipart/alternative"
ContentTypeTextHtml == "text/html"
ContentTypeTextPlain == "text/plain"

\* "Content-Type: %s\n"
ContentTypeLine(t) == <<CT, t, LF>>
\* "Content-Type: %s; boundary=%s\n\n--%s\n"
ContentTypeLineBoundary(t, b1, b2) == <<CT, t, "; boundary=", b1, LF, LF, DD, b2, LF>>
ContentTransfertEncodingBase64Line == <<"Content-Transfer-Encoding: base64", LF>>
MimeVersionLine == <<"MIME-Version: 1.0", LF>>
\* "\n\n--%s\n"
BoundaryLine(b) == <<LF, LF, DD, b, LF>>
\* "Content-Disposition: attachment; filename=\"=?UTF-8?B?%s?=\"\r\n\r\n"
ContentDispositionAttachmentLine(e) ==
    <<"Content-Disposition: attachment; filename=\"=?UTF-8?B?">> \o e \o <<"?=\"", CR, LF, CR, LF>>
BackLine == <<CR, LF>>

\* the line length of the wrap loop, (i+1)%76
LineLen == 76

-----------------------------------------------------------------------------
(* encoding/base64, StdEncoding (padded) *)

B64Alphabet ==
    <<"A","B","C","D","E","F","G","H","I","J","K","L","M","N","O","P",
      "Q","R","S","T","U","V","W","X","Y","Z","a","b","c","d","e","f",
      "g","h","i","j","k","l","m","n","o","p","q","r","s","t","u","v",
      "w","x","y","z","0","1","2","3","4","5","6","7","8","9","+","/">>
B64Pad == "="

B64Chars == Range(B64Alphabet) \cup {B64Pad}

EncodedLen(n) == ((n + 2) \div 3) * 4

Pow64(k) == CASE k = 0 -> 1 [] k = 1 -> 64 [] k = 2 -> 4096 [] OTHER -> 262144

ByteAt(v, i) == IF i <= Len(v) THEN v[i] ELSE 0

\* the i-th (1-based) character of the encoding of v
EncodeChar(v, i) ==
    LET g   == (i - 1) \div 4
        pos == (i - 1) % 4
        val == ByteAt(v, 3*g + 1) * 65536 + ByteAt(v, 3*g + 2) * 256 + ByteAt(v, 3*g + 3)
    IN  IF pos >= 2 /\ 3*g + pos > Len(v) THEN B64Pad
        ELSE B64Alphabet[((val \div Pow64(3 - pos)) % 64) + 1]

Encode(v) == [i \in 1..EncodedLen(Len(v)) |-> EncodeChar(v, i)]

-----------------------------------------------------------------------------
(* The inputs the model draws from *)

\* net/mail.Address{Address: s}
MkAddress(s) == [Name |-> "", Address |-> s]

ToAddrs == {"a@x", "b@y"}
CcAddrs == {"c@x"}
BccAddrs == {"d@x"}
FromAddrs == {"f@x"}

\* subjects, as bytes: "Hi"
Subjects == {<<72, 105>>}
Texts == {<<>>, <<"h", "e", "l", "l", "o">>}
Htmls == {<<>>, <<"<p>", "h", "i", "</p>">>}

\* file names, as bytes: "a.txt", "b", "c.bin", "e", "gone"
NameA == <<97, 46, 116, 120, 116>>
NameB == <<98>>
NameC == <<99, 46, 98, 105, 110>>
NameE == <<101>>
NameGone == <<103, 111, 110, 101>>

TextBytes(n) == [i \in 1..n |-> 97 + (i % 26)]
BinBytes(n) == [i \in 1..n |-> (i * 37) % 256]

\* the files on disk: path -> content; a path outside the domain cannot be opened
Path(d, n) == [dir |-> d, name |-> n]
Files ==
    (Path("/tmp/", NameA) :> TextBytes(200)) @@
    (Path("/srv/", NameA) :> TextBytes(57)) @@
    (Path("/tmp/", NameB) :> TextBytes(1)) @@
    (Path("/tmp/", NameC) :> BinBytes(58)) @@
    (Path("/tmp/", NameE) :> <<>>)
Paths == DOMAIN Files \cup {Path("/tmp/", NameGone)}

\* the boundary tokens multipart.NewWriter may draw
Boundaries == {"bnd1", "bnd2"}

-----------------------------------------------------------------------------
(* Message model, src/rmailer.go lines 178-242 *)

NewMessage(subject, text, html) ==
    [From |-> MkAddress(""), To |-> <<>>, CC |-> <<>>, BCC |-> <<>>,
     Subject |-> subject, BodyText |-> text, BodyHtml |-> html,
     Attachments |-> <<>>]

\* m.To = make([]mail.Address, len(ss)); m.To[i] = mail.Address{Address: r}
AddressList(ss) == [i \in 1..Len(ss) |-> MkAddress(ss[i])]

\* filepath.Split(path): the directory is dropped
FileName(path) == path.name

\* the map made anew on each call, as the setters make their slices
StoreAttachment_Fresh(atts, name, b) == [k \in {name} |-> b]

\* m.Attachments[fileName] = b
StoreAttachment(atts, name, b) ==
    [k \in DOMAIN atts \cup {name} |-> IF k = name THEN b ELSE atts[k]]

MsgUnchanged == UNCHANGED <<sender, phase, out, writer, order, pc, trace, ret, defers, closes, logged>>

SetFromFromStringOf(str) ==
    /\ phase = "building"
    /\ msg' = [msg EXCEPT !.From = MkAddress(str)]
    /\ UNCHANGED lastErr
    /\ MsgUnchanged

SetFromFromString == \E str \in FromAddrs : SetFromFromStringOf(str)

SetToFromStringsOf(ss) ==
    /\ phase = "building"
    /\ msg' = [msg EXCEPT !.To = AddressList(ss)]
    /\ UNCHANGED lastErr
    /\ MsgUnchanged

SetToFromStrings == \E ss \in SeqsUpTo(ToAddrs, MaxRcpt) : SetToFromStringsOf(ss)

SetCcFromStringsOf(ss) ==
    /\ phase = "building"
    /\ msg' = [msg EXCEPT !.CC = AddressList(ss)]
    /\ UNCHANGED lastErr
    /\ MsgUnchanged

SetCcFromStrings == \E ss \in SeqsUpTo(CcAddrs, 1) : SetCcFromStringsOf(ss)

SetBccFromStringsOf(ss) ==
    /\ phase = "building"
    /\ msg' = [msg EXCEPT !.BCC = AddressList(ss)]
    /\ UNCHANGED lastErr
    /\ MsgUnchanged

SetBccFromStrings == \E ss \in SeqsUpTo(BccAddrs, 1) : SetBccFromStringsOf(ss)

\* os.Open fails for a path that is not on disk; io.ReadAll may fail (readOk);
\* only a full read stores the content under the base name
AttachFileOf(path, readOk) ==
    /\ phase = "building"
    /\ Cardinality(DOMAIN msg.Attachments \cup {FileName(path)}) <= MaxAttach
    /\ IF path \notin DOMAIN Files
       THEN msg' = msg /\ lastErr' = "open"
       ELSE IF ~readOk
       THEN msg' = msg /\ lastErr' = "read"
       ELSE /\ msg' = [msg EXCEPT !.Attachments = StoreAttachment(@, FileName(path), Files[path])]
            /\ lastErr' = "nil"
    /\ MsgUnchanged

AttachFile == \E path \in Paths, readOk \in BOOLEAN : AttachFileOf(path, readOk)

-----------------------------------------------------------------------------
(* MIME composer, src/rmailer.go lines 244-367 *)

\* net/mail Address.String() of an address without a display name: "<" local "@" domain ">"
AddressString(a) == IF a.Address = "" THEN <<"<", "@", ">">> ELSE <<"<", a.Address, ">">>

\* strings.Join of the rendered addresses with ","
getRecipientsStr(recipients) ==
    Join([i \in 1..Len(recipients) |-> AddressString(recipients[i])], <<",">>)

FromLine(m) == <<"From: ">> \o AddressString(m.From) \o <<CR, LF>>
ToLine(m) == <<"To: ">> \o getRecipientsStr(m.To) \o <<CR, LF>>
CcLine(m) == <<"Cc: ">> \o getRecipientsStr(m.CC) \o <<CR, LF>>
SubjectLine(m) == <<"Subject: =?UTF-8?B?">> \o Encode(m.Subject) \o <<"?=", CR, LF>>

\* "Content-Type: %s; charset=utf-8\r\n\r\n%s\r\n"
BodyLine(content, contentType) ==
    <<CT, contentType, "; charset=utf-8", CR, LF, CR, LF>> \o content \o <<CR, LF>>
BodyHtmlLine(m) == BodyLine(m.BodyHtml, ContentTypeTextHtml)
BodyTextLine(m) == BodyLine(m.BodyText, ContentTypeTextPlain)

\* net/http.DetectContentType on content that matches no signature: binary
\* data bytes give application/octet-stream, anything else (also nothing) text/plain
IsBinaryByte(b) == b <= 8 \/ b = 11 \/ (14 <= b /\ b <= 26) \/ (28 <= b /\ b <= 31)
DetectContentType(content) ==
    IF \E i \in 1..Len(content) : IsBinaryByte(content[i])
    THEN "application/octet-stream"
    ELSE "text/plain; charset=utf-8"

\* filepath.Ext: from the last "." (46) of the name, "" when there is none
Ext(name) ==
    LET dots == {i \in 1..Len(name) : name[i] = 46}
    IN  IF dots = {} THEN <<>>
        ELSE LET d == CHOOSE i \in dots : \A j \in dots : j <= i
             IN  SubSeq(name, d, Len(name))

\* mime.TypeByExtension: ".txt" is known, an unknown extension gives ""
TypeByExtension(ext) ==
    IF ext = <<46, 116, 120, 116>> THEN "text/plain; charset=utf-8" ELSE ""

\* strings.HasPrefix(contentType, "text/plain")
HasPrefixTextPlain(t) == t = "text/plain; charset=utf-8"

getContentType(name, content) ==
    LET contentType == DetectContentType(content)
    IN  IF HasPrefixTextPlain(contentType) THEN TypeByExtension(Ext(name)) ELSE contentType

\* multipart.NewWriter draws a random boundary; Boundary() returns it
NewWriter(b) == [boundary |-> b]
Boundary(w) == w.boundary

\* the alternative envelope opened as soon as one body is present (|| for &&)
EnvelopeHeaders_AnyBody(m, boundaryMixed, boundaryAlternative) ==
    LET withAttachments == Cardinality(DOMAIN m.Attachments) > 0
        anyBody == Len(m.BodyHtml) > 0 \/ Len(m.BodyText) > 0
    IN  (IF withAttachments
         THEN ContentTypeLineBoundary(ContentTypeMultipartMixed, boundaryMixed, boundaryMixed)
         ELSE <<>>)
        \o
        (IF anyBody
         THEN ContentTypeLineBoundary(ContentTypeMultipartAlternative, boundaryAlternative, boundaryAlternative)
         ELSE <<>>)

\* lines 267-273: the envelope headers
EnvelopeHeaders(m, boundaryMixed, boundaryAlternative) ==
    LET withAttachments == Cardinality(DOMAIN m.Attachments) > 0
        bothBody == Len(m.BodyHtml) > 0 /\ Len(m.BodyText) > 0
    IN  (IF withAttachments
         THEN ContentTypeLineBoundary(ContentTypeMultipartMixed, boundaryMixed, boundaryMixed)
         ELSE <<>>)
        \o
        (IF bothBody
         THEN ContentTypeLineBoundary(ContentTypeMultipartAlternative, boundaryAlternative, boundaryAlternative)
         ELSE <<>>)

\* the two bodies in the other order, text first
BodyParts_TextFirst(m, boundaryAlternative) ==
    (IF Len(m.BodyText) > 0
     THEN BodyTextLine(m) \o (IF Len(m.BodyHtml) > 0 THEN BoundaryLine(boundaryAlternative) ELSE <<>>)
     ELSE <<>>)
    \o
    (IF Len(m.BodyHtml) > 0 THEN BodyHtmlLine(m) ELSE <<>>)

\* lines 275-285: the body parts, HTML first
BodyParts(m, boundaryAlternative) ==
    (IF Len(m.BodyHtml) > 0
     THEN BodyHtmlLine(m) \o (IF Len(m.BodyText) > 0 THEN BoundaryLine(boundaryAlternative) ELSE <<>>)
     ELSE <<>>)
    \o
    (IF Len(m.BodyText) > 0 THEN BodyTextLine(m) ELSE <<>>)

\* lines 298-304: every character b[i] in turn, and BackLine after each
\* LineLen-th one; the loop over lo..hi is evaluated by halves
RECURSIVE WrapRange(_, _, _)
WrapRange(b, lo, hi) ==
    IF lo > hi THEN <<>>
    ELSE IF lo = hi THEN <<b[lo]>> \o (IF lo % LineLen = 0 THEN BackLine ELSE <<>>)
    ELSE LET mid == (lo + hi) \div 2
         IN  WrapRange(b, lo, mid) \o WrapRange(b, mid + 1, hi)
\* the loop with its BackLine forgotten
WrapLines_NoBreak(b) == [i \in 1..Len(b) |-> b[i]]

WrapLines(b) == WrapRange(b, 1, Len(b))

\* lines 289-306: one attachment
AttachmentPart(k, v, boundaryMixed) ==
    BoundaryLine(boundaryMixed)
    \o ContentTypeLine(getContentType(k, v))
    \o ContentTransfertEncodingBase64Line
    \o ContentDispositionAttachmentLine(Encode(k))
    \o WrapLines(Encode(v))
    \o BoundaryLine(boundaryMixed)

\* lines 287-310: the attachments in the order the range visits them, then "--"
AttachmentParts(m, boundaryMixed, ord) ==
    IF Cardinality(DOMAIN m.Attachments) > 0
    THEN Concat([i \in 1..Len(ord) |-> AttachmentPart(ord[i], m.Attachments[ord[i]], boundaryMixed)])
         \o <<DD>>
    ELSE <<>>

\* a Bcc header written after the Cc header, as the Cc header is written
HeaderBlock_WithBcc(m) ==
    FromLine(m) \o ToLine(m) \o (IF Len(m.CC) > 0 THEN CcLine(m) ELSE <<>>)
    \o (IF Len(m.BCC) > 0 THEN <<"Bcc: ">> \o getRecipientsStr(m.BCC) \o <<CR, LF>> ELSE <<>>)
    \o SubjectLine(m) \o MimeVersionLine

\* lines 252-261: From, To, Cc when there is one, Subject, MIME-Version
HeaderBlock(m) ==
    FromLine(m) \o ToLine(m) \o (IF Len(m.CC) > 0 THEN CcLine(m) ELSE <<>>)
    \o SubjectLine(m) \o MimeVersionLine

\* lines 264-265: both boundaries are read from the one writer
BoundaryMixedOf(w) == Boundary(w)
BoundaryAlternativeOf(w) == Boundary(w)

ToBytes(m, w, ord) ==
    LET boundaryMixed == BoundaryMixedOf(w)
        boundaryAlternative == BoundaryAlternativeOf(w)
    IN  HeaderBlock(m)
        \o EnvelopeHeaders(m, boundaryMixed, boundaryAlternative)
        \o BodyParts(m, boundaryAlternative)
        \o AttachmentParts(m, boundaryMixed, ord)

\* m.ToBytes() on the Message as built; the call ends the building
ToBytesCall ==
    /\ phase = "building"
    /\ \E b \in Boundaries, ord \in Perms(DOMAIN msg.Attachments) :
        /\ writer' = NewWriter(b)
        /\ order' = ord
        /\ out' = ToBytes(msg, NewWriter(b), ord)
    /\ phase' = "composed"
    /\ UNCHANGED <<msg, sender, lastErr, pc, trace, ret, defers, closes, logged>>

NoSend ==
    /\ sender = [UserName |-> "", Password |-> <<>>, Host |-> ""]
    /\ pc = "idle" /\ trace = <<>> /\ ret = <<"none">> /\ defers = <<>> /\ closes = <<>> /\ logged = <<>>

NoOutput == out = <<>> /\ writer = NewWriter("") /\ order = <<>>

InitMsg ==
    /\ \E subject \in Subjects, text \in Texts, html \in Htmls : msg = NewMessage(subject, text, html)
    /\ phase = "building"
    /\ lastErr = "nil"
    /\ NoOutput
    /\ NoSend

NextMsg ==
    \/ SetFromFromString
    \/ SetToFromStrings
    \/ SetCcFromStrings
    \/ SetBccFromStrings
    \/ AttachFile
    \/ ToBytesCall

SpecMsg == InitMsg /\ [][NextMsg]_vars

-----------------------------------------------------------------------------
(* SMTP transport, src/rmailer.go lines 35-176 *)

Passwords == {<<>>, <<"s", "e", "c", "r", "e", "t">>}

NewSender(username, password, host) ==
    [UserName |-> username, Password |-> password, Host |-> host]

\* every Send is taken for authenticated (>= 0 for > 0)
IsAuthenticated_Always(s) == Len(s.Password) >= 0

IsAuthenticated(s) == Len(s.Password) > 0

\* the BCC loop left out
Recipients_NoBcc(m) == m.To \o m.CC

\* recipients(c, m): the three loops, To, then CC, then BCC
Recipients(m) == m.To \o m.CC \o m.BCC

\* a failing RCPT returned like every other error
Fatal_WithRcpt(step) ==
    step \in {"DIAL", "TLSDIAL", "CLIENT", "AUTH", "MAIL", "RCPT", "DATA", "BYTES", "CLOSE"}

\* the error of MAIL FROM not looked at
Fatal_NotMail(step) ==
    step \in {"DIAL", "TLSDIAL", "CLIENT", "AUTH", "DATA", "BYTES", "CLOSE"}

\* the steps whose error is returned at once (if err != nil { return err });
\* the error of c.Rcpt is only logged
Fatal(step) ==
    step \in {"DIAL", "TLSDIAL", "CLIENT", "AUTH", "MAIL", "DATA", "BYTES", "CLOSE"}

\* the first defer of AnonymousSend left out
DeferredClose_NotAfterDial(step) ==
    CASE step = "DIAL" -> <<>>
      [] step = "TLSDIAL" -> <<"conn.Close">>
      [] step \in {"CLIENT", "AUTH", "MAIL", "DATA", "BYTES", "CLOSE"} -> <<"c.Close">>
      [] OTHER -> <<>>

\* the call deferred once the step has succeeded
DeferredClose(step) ==
    CASE step = "DIAL" -> <<"c.Close">>
      [] step = "TLSDIAL" -> <<"conn.Close">>
      [] step \in {"CLIENT", "AUTH", "MAIL", "DATA", "BYTES", "CLOSE"} -> <<"c.Close">>
      [] OTHER -> <<>>

Reverse(q) == [i \in 1..Len(q) |-> q[Len(q) + 1 - i]]

ErrOf(step) == <<"error", step>>
Nil == <<"nil">>
Running == <<"none">>

NumRcpt(t) == Cardinality({i \in 1..Len(t) : t[i].step = "RCPT"})

\* where the recipients loops stand once n RCPT have been made
RcptOrData(m, n) == IF n < Len(Recipients(m)) THEN "rcpt" ELSE "data"

SendUnchanged == UNCHANGED <<msg, sender, phase, lastErr>>

\* one call of the SMTP client with its outcome ok: the step is recorded; a
\* fatal error returns it, and the deferred calls run, last deferred first;
\* otherwise the next defer is registered and the function goes on
Step(step, arg, ok, next) ==
    /\ trace' = Append(trace, [step |-> step, arg |-> arg, ok |-> ok])
    /\ IF ~ok /\ Fatal(step)
       THEN /\ ret' = ErrOf(step)
            /\ closes' = closes \o Reverse(defers)
            /\ pc' = "done"
            /\ UNCHANGED defers
       ELSE /\ defers' = defers \o (IF ok THEN DeferredClose(step) ELSE <<>>)
            /\ pc' = next
            /\ UNCHANGED <<ret, closes>>

\* Send: the path is chosen by IsAuthenticated
Send ==
    /\ pc = "start"
    /\ pc' = IF IsAuthenticated(sender) THEN "tlsdial" ELSE "dial"
    /\ UNCHANGED <<trace, ret, defers, closes, logged, out, writer, order>>
    /\ SendUnchanged

\* smtp.Dial(s.Host)
Dial ==
    /\ pc = "dial"
    /\ \E ok \in BOOLEAN : Step("DIAL", sender.Host, ok, "mail")
    /\ UNCHANGED <<logged, out, writer, order>>
    /\ SendUnchanged

\* tls.Dial("tcp", s.Host, tlsconfig)
TlsDial ==
    /\ pc = "tlsdial"
    /\ \E ok \in BOOLEAN : Step("TLSDIAL", sender.Host, ok, "client")
    /\ UNCHANGED <<logged, out, writer, order>>
    /\ SendUnchanged

\* smtp.NewClient(conn, host)
NewClient ==
    /\ pc = "client"
    /\ \E ok \in BOOLEAN : Step("CLIENT", sender.Host, ok, "auth")
    /\ UNCHANGED <<logged, out, writer, order>>
    /\ SendUnchanged

\* c.Auth(auth)
Auth ==
    /\ pc = "auth"
    /\ \E ok \in BOOLEAN : Step("AUTH", sender.UserName, ok, "mail")
    /\ UNCHANGED <<logged, out, writer, order>>
    /\ SendUnchanged

\* c.Mail(s.UserName)
Mail ==
    /\ pc = "mail"
    /\ \E ok \in BOOLEAN : Step("MAIL", sender.UserName, ok, RcptOrData(msg, 0))
    /\ UNCHANGED <<logged, out, writer, order>>
    /\ SendUnchanged

\* one turn of the loops of recipients: c.Rcpt(r.Address), its error logged
Rcpt ==
    /\ pc = "rcpt"
    /\ LET n == NumRcpt(trace)
           addr == Recipients(msg)[n + 1].Address
       IN  \E ok \in BOOLEAN :
            /\ Step("RCPT", addr, ok, RcptOrData(msg, n + 1))
            /\ logged' = IF ok THEN logged ELSE Append(logged, addr)
    /\ UNCHANGED <<out, writer, order>>
    /\ SendUnchanged

\* c.Data()
Data ==
    /\ pc = "data"
    /\ \E ok \in BOOLEAN : Step("DATA", "", ok, "write")
    /\ UNCHANGED <<logged, out, writer, order>>
    /\ SendUnchanged

\* w.Write(m.ToBytes())
Write ==
    /\ pc = "write"
    /\ \E b \in Boundaries, ord \in Perms(DOMAIN msg.Attachments) :
        /\ writer' = NewWriter(b)
        /\ order' = ord
        /\ out' = ToBytes(msg, NewWriter(b), ord)
    /\ \E ok \in BOOLEAN : Step("BYTES", "", ok, "wclose")
    /\ UNCHANGED logged
    /\ SendUnchanged

\* w.Close()
CloseData ==
    /\ pc = "wclose"
    /\ \E ok \in BOOLEAN : Step("CLOSE", "", ok, "quit")
    /\ UNCHANGED <<logged, out, writer, order>>
    /\ SendUnchanged

\* return c.Quit(), then the deferred calls
Quit ==
    /\ pc = "quit"
    /\ \E ok \in BOOLEAN :
        /\ trace' = Append(trace, [step |-> "QUIT", arg |-> "", ok |-> ok])
        /\ ret' = IF ok THEN Nil ELSE ErrOf("QUIT")
    /\ closes' = closes \o Reverse(defers)
    /\ pc' = "done"
    /\ UNCHANGED <<defers, logged, out, writer, order>>
    /\ SendUnchanged

\* the attachments of a Message handed to Send: none, or /tmp/b and /tmp/c.bin
SendAttachments ==
    {<<>>,
     StoreAttachment(StoreAttachment(<<>>, NameB, Files[Path("/tmp/", NameB)]),
                     NameC, Files[Path("/tmp/", NameC)])}

\* the Messages handed to Send
SendMessages ==
    {[NewMessage(subject, text, html) EXCEPT
          !.From = MkAddress(f), !.To = AddressList(to),
          !.CC = AddressList(cc), !.BCC = AddressList(bcc),
          !.Attachments = atts] :
        subject \in Subjects, text \in Texts, html \in Htmls, f \in FromAddrs,
        to \in SeqsUpTo(ToAddrs, MaxRcpt), cc \in SeqsUpTo(CcAddrs, 1),
        bcc \in SeqsUpTo(BccAddrs, 1), atts \in SendAttachments}

Init ==
    /\ msg \in SendMessages
    /\ \E p \in Passwords : sender = NewSender("u@x", p, "mta.x:465")
    /\ phase = "sending"
    /\ lastErr = "nil"
    /\ NoOutput
    /\ pc = "start" /\ trace = <<>> /\ ret = Running
    /\ defers = <<>> /\ closes = <<>> /\ logged = <<>>

Next ==
    \/ Send
    \/ Dial
    \/ TlsDial
    \/ NewClient
    \/ Auth
    \/ Mail
    \/ Rcpt
    \/ Data
    \/ Write
    \/ CloseData
    \/ Quit

Spec == Init /\ [][Next]_vars

-----------------------------------------------------------------------------
(* Reading the steps of a Send *)

IsCommand(e) == e.step \notin {"DIAL", "TLSDIAL", "CLIENT"}

\* the names of the SMTP commands issued so far, in order
Commands == [i \in 1..Len(SelectSeq(trace, IsCommand)) |-> SelectSeq(trace, IsCommand)[i].step]

Done == pc = "done"
LastStep == trace[Len(trace)]
Issued(step) == \E i \in 1..Len(trace) : trace[i].step = step
Accepted(step) == \E i \in 1..Len(trace) : trace[i].step = step /\ trace[i].ok
Rejected(step) == \E i \in 1..Len(trace) : trace[i].step = step /\ ~trace[i].ok

\* the steps made after MAIL FROM
AfterMail ==
    LET i == CHOOSE k \in 1..Len(trace) : trace[k].step = "MAIL"
    IN  SubSeq(trace, i + 1, Len(trace))

\* the addresses of To, then CC, then BCC
EnvelopeRecipients ==
    [i \in 1..Len(msg.To) |-> msg.To[i].Address]
    \o [i \in 1..Len(msg.CC) |-> msg.CC[i].Address]
    \o [i \in 1..Len(msg.BCC) |-> msg.BCC[i].Address]

-----------------------------------------------------------------------------
\* C1: once MAIL FROM has been accepted, exactly one RCPT TO is attempted for
\* every address of To, then CC, then BCC, whatever the outcome of the earlier
\* RCPT commands; a rejected RCPT does not end the Send: DATA is attempted
\* after the last RCPT, and QUIT after the data has been written and closed,
\* whether the recipients were accepted or rejected.
C1_RcptNeverAborts ==
    Accepted("MAIL") =>
        LET after == AfterMail
            rcpts == EnvelopeRecipients
            n == Len(rcpts)
        IN  /\ NumRcpt(trace) <= n
            /\ \A i \in 1..Len(after) :
                  IF i <= n THEN after[i].step = "RCPT" /\ after[i].arg = rcpts[i]
                  ELSE after[i].step # "RCPT"
            /\ pc \notin {"rcpt"} => NumRcpt(trace) = n
            /\ Done => Len(after) > n /\ after[n + 1].step = "DATA"
            /\ (Done /\ Accepted("DATA") /\ Accepted("BYTES") /\ Accepted("CLOSE")) =>
                  LastStep.step = "QUIT"
            /\ Len(logged) = Cardinality({i \in 1..Len(trace) : trace[i].step = "RCPT" /\ ~trace[i].ok})

C1_Witness ==
    /\ Done
    /\ NumRcpt(trace) = 3
    /\ \A i \in 1..Len(trace) : trace[i].step = "RCPT" => ~trace[i].ok
    /\ Len(logged) = 3
    /\ Issued("DATA") /\ LastStep.step = "QUIT"

-----------------------------------------------------------------------------
\* C2: an error at connect, client construction, AUTH, MAIL FROM, DATA-open,
\* the write of the composed bytes or DATA-close ends the Send: the failing
\* step is the last step made, no SMTP command follows it, and Send returns
\* the error of that step, not nil.
C2_FatalErrorAborts ==
    \A i \in 1..Len(trace) :
        (/\ trace[i].step \in {"DIAL", "TLSDIAL", "CLIENT", "AUTH", "MAIL", "DATA", "BYTES", "CLOSE"}
         /\ ~trace[i].ok) =>
            /\ i = Len(trace)
            /\ Done
            /\ ret = <<"error", trace[i].step>>
            /\ ret # Nil

C2_Witness ==
    /\ Done
    /\ LastStep.step = "MAIL" /\ ~LastStep.ok
    /\ ret = <<"error", "MAIL">>
    /\ Len(EnvelopeRecipients) = 3
    /\ ~Issued("RCPT") /\ ~Issued("DATA") /\ ~Issued("QUIT")

-----------------------------------------------------------------------------
\* C3: the SMTP commands of a Send are issued in the order MAIL FROM, zero or
\* more RCPT TO, DATA, message bytes, data close, QUIT, each but RCPT at most
\* once; AUTH is issued, and then first, before MAIL FROM, exactly when the
\* password of the Sender is non-empty.
C3_FixedOrder ==
    LET canonical ==
            (IF Len(sender.Password) > 0 THEN <<"AUTH">> ELSE <<>>)
            \o <<"MAIL">>
            \o [i \in 1..NumRcpt(trace) |-> "RCPT"]
            \o <<"DATA", "BYTES", "CLOSE", "QUIT">>
    IN  /\ IsPrefix(Commands, canonical)
        /\ Issued("AUTH") => Len(sender.Password) > 0
        /\ (Issued("MAIL") /\ Len(sender.Password) > 0) => Commands[1] = "AUTH"
        /\ (Issued("DIAL") \/ Issued("TLSDIAL")) => (Issued("TLSDIAL") <=> Len(sender.Password) > 0)

C3_Witness ==
    /\ Done /\ ret = Nil
    /\ Len(sender.Password) > 0
    /\ Commands = <<"AUTH", "MAIL", "RCPT", "RCPT", "RCPT", "DATA", "BYTES", "CLOSE", "QUIT">>

-----------------------------------------------------------------------------
\* C4: once Send has established a connection, a Close of the session has run
\* when Send returns, on the successful path and on every failing one; on the
\* authenticated path the connection itself is closed, last of all.
C4_ClosedOnEveryExit ==
    (ret # Running /\ (Accepted("DIAL") \/ Accepted("TLSDIAL"))) =>
        /\ Len(closes) >= 1
        /\ Accepted("DIAL") => closes[Len(closes)] = "c.Close"
        /\ Accepted("TLSDIAL") => closes[Len(closes)] = "conn.Close"

C4_Witness ==
    /\ Done
    /\ Accepted("TLSDIAL") /\ Rejected("CLIENT")
    /\ closes = <<"conn.Close">>

-----------------------------------------------------------------------------
(* Reading a composed text *)

Count(o, a) == Cardinality({i \in 1..Len(o) : o[i] = a})

AtLineStart(o, i) == i = 1 \/ o[i - 1] = LF

\* a line ends at j: "\n" or "\r\n" stands there
EndsLine(o, j) ==
    /\ j <= Len(o)
    /\ \/ o[j] = LF
       \/ o[j] = CR /\ j + 1 <= Len(o) /\ o[j + 1] = LF

\* the delimiter line "--<b>" starts at i
IsDelimiterLine(o, i, b) ==
    /\ i >= 1 /\ i + 2 <= Len(o)
    /\ AtLineStart(o, i)
    /\ o[i] = DD /\ o[i + 1] = b
    /\ EndsLine(o, i + 2)

\* the closing delimiter "--<b>--" starts at i and ends the text
IsClosingDelimiterAtEnd(o, i, b) ==
    /\ i >= 1 /\ i + 2 = Len(o)
    /\ AtLineStart(o, i)
    /\ o[i] = DD /\ o[i + 1] = b /\ o[i + 2] = DD

Delims(o, b) == {i \in 1..Len(o) : IsDelimiterLine(o, i, b)}

\* the boundary parameter of the envelope header of type t ("" when there is none)
EnvelopeAt(o, t) == {i \in 1..Len(o) : o[i] = CT /\ i + 3 <= Len(o) /\ o[i + 1] = t /\ o[i + 2] = "; boundary="}
BoundaryOfEnvelope(o, t) ==
    IF EnvelopeAt(o, t) = {} THEN "" ELSE o[(CHOOSE i \in EnvelopeAt(o, t) : TRUE) + 3]

Contains(o, sub) ==
    \E i \in 0..(Len(o) - Len(sub)) : \A j \in 1..Len(sub) : o[i + j] = sub[j]

EndsWith(o, sub) ==
    Len(sub) <= Len(o) /\ \A j \in 1..Len(sub) : o[Len(o) - Len(sub) + j] = sub[j]

Composed == phase = "composed"
NumAttachments == Cardinality(DOMAIN msg.Attachments)
HasText == Len(msg.BodyText) > 0
HasHtml == Len(msg.BodyHtml) > 0

\* where the headers of the attachments start: "Content-Type: <t>\n" followed by
\* the transfer-encoding line
AttachmentHeads(o) ==
    {i \in 1..Len(o) : o[i] = CT /\ i + 3 <= Len(o) /\ o[i + 3] = ContentTransfertEncodingBase64Line[1]}

\* two delimiter lines of b with nothing but line breaks between them
EmptyPart(o, b) ==
    \E i, j \in Delims(o, b) :
        /\ i < j
        /\ \A k \in (i + 2)..(j - 1) : o[k] \in {CR, LF}

-----------------------------------------------------------------------------
\* C5: for a Message with N >= 1 attachments the output of ToBytes holds exactly
\* N attachment parts, the headers of each immediately preceded by a delimiter
\* line "--<B1>" of the mixed envelope, no empty part lies between two
\* delimiter lines, and the output ends with the closing delimiter "--<B1>--".
C5_AttachmentParts ==
    (Composed /\ NumAttachments >= 1) =>
        LET b1 == BoundaryOfEnvelope(out, ContentTypeMultipartMixed)
        IN  /\ Cardinality(AttachmentHeads(out)) = NumAttachments
            /\ \A i \in AttachmentHeads(out) : IsDelimiterLine(out, i - 3, b1)
            /\ ~EmptyPart(out, b1)
            /\ IsClosingDelimiterAtEnd(out, Len(out) - 2, b1)

-----------------------------------------------------------------------------
\* C6: for a Message with no attachments and exactly one of BodyText and
\* BodyHtml non-empty, the output of ToBytes holds exactly one "Content-Type:"
\* header, that of the body (text/plain or text/html, charset=utf-8), no
\* delimiter line and no multipart envelope header.
C6_FlatSinglePart ==
    (Composed /\ NumAttachments = 0 /\ (HasText # HasHtml)) =>
        /\ Count(out, CT) = 1
        /\ \A i \in 1..Len(out) : out[i] = CT =>
              /\ out[i + 1] = (IF HasText THEN "text/plain" ELSE "text/html")
              /\ out[i + 2] = "; charset=utf-8"
        /\ \A i \in 1..Len(out) : ~(AtLineStart(out, i) /\ out[i] = DD)
        /\ Count(out, "; boundary=") = 0
        /\ Count(out, "multipart/mixed") = 0
        /\ Count(out, "multipart/alternative") = 0

C6_Witness ==
    /\ Composed /\ NumAttachments = 0 /\ HasText /\ ~HasHtml
    /\ Len(msg.To) > 0 /\ Len(msg.CC) > 0

-----------------------------------------------------------------------------
\* C7: for a Message with both bodies non-empty and no attachments, the output
\* of ToBytes holds exactly one multipart/alternative envelope header; the HTML
\* part stands between the opening delimiter of that envelope and the delimiter
\* that separates the two bodies, and the text part follows that delimiter and
\* is the last part of the output.
C7_AlternativeOrder ==
    (Composed /\ NumAttachments = 0 /\ HasText /\ HasHtml) =>
        LET b2 == BoundaryOfEnvelope(out, "multipart/alternative")
            ds == Delims(out, b2)
        IN  /\ Count(out, "multipart/alternative") = 1
            /\ Cardinality(EnvelopeAt(out, "multipart/alternative")) = 1
            /\ Count(out, "multipart/mixed") = 0
            /\ \E d1, d2 \in ds :
                /\ d1 < d2 /\ ds = {d1, d2}
                /\ \A e \in EnvelopeAt(out, "multipart/alternative") : e < d1
                /\ LET htmlPart == SubSeq(out, d1 + 3, d2 - 1)
                       textPart == SubSeq(out, d2 + 3, Len(out))
                   IN  /\ Contains(htmlPart, <<CT, "text/html", "; charset=utf-8", CR, LF, CR, LF>> \o msg.BodyHtml)
                       /\ Count(htmlPart, "text/plain") = 0
                       /\ IsPrefix(<<CT, "text/plain", "; charset=utf-8", CR, LF, CR, LF>>, textPart)
                       /\ EndsWith(textPart, msg.BodyText \o <<CR, LF>>)
                       /\ Count(textPart, "text/html") = 0

C7_Witness ==
    /\ Composed /\ NumAttachments = 0 /\ HasText /\ HasHtml
    /\ Count(out, DD) = 2

-----------------------------------------------------------------------------
(* The base64 body of the k-th attachment part of a composed text *)

\* the k-th smallest element of a set of numbers
RECURSIVE KthOf(_, _)
KthOf(S, k) ==
    LET lo == CHOOSE x \in S : \A y \in S : x <= y
    IN  IF k = 1 THEN lo ELSE KthOf(S \ {lo}, k - 1)

\* the body starts after the "\r\n\r\n" that ends the disposition header
DispositionEnds(o) == {i \in 1..Len(o) : o[i] = "?=\""}
BodyStart(o, k) == KthOf(DispositionEnds(o), k) + 5
\* and runs up to the "\n" that begins the boundary line: the first "\n" that
\* does not belong to a "\r\n"
BodyEnd(o, k) ==
    CHOOSE j \in BodyStart(o, k)..Len(o) :
        /\ o[j] = LF /\ o[j - 1] # CR
        /\ \A i \in BodyStart(o, k)..(j - 1) : ~(o[i] = LF /\ o[i - 1] # CR)
AttachmentBody(o, k) == SubSeq(o, BodyStart(o, k), BodyEnd(o, k) - 1)

CeilDiv(n, d) == IF n % d = 0 THEN n \div d ELSE (n \div d) + 1

Base64CharsOf(body) == {i \in 1..Len(body) : body[i] \notin {CR, LF}}

\* what C8 says of every attachment but its last sentence
C8_Common(n, body) ==
    LET chars == 4 * CeilDiv(n, 3)
    IN  /\ Cardinality(Base64CharsOf(body)) = chars
        /\ \A i \in Base64CharsOf(body) : body[i] \in B64Chars
        \* no more than 76 characters in a row
        /\ \A i \in 1..(Len(body) - 76) : \E j \in i..(i + 76) : body[j] \in {CR, LF}
        \* every full line of 76 characters is terminated by "\r\n"
        /\ \A l \in 1..(chars \div 76) : body[78 * l - 1] = CR /\ body[78 * l] = LF

\* C8 (as stated): the base64 body of an attachment of n bytes has
\* 4*ceil(n/3) base64 characters in lines of at most 76 characters, and every
\* line, the last and shorter one too, is terminated by "\r\n".
C8_EveryLineCRLF ==
    Composed =>
        \A k \in 1..Len(order) :
            LET n == Len(msg.Attachments[order[k]])
                body == AttachmentBody(out, k)
            IN  /\ C8_Common(n, body)
                /\ (n > 0 => EndsWith(body, <<CR, LF>>))

\* C8 (amended): the base64 body of an attachment of n bytes has 4*ceil(n/3)
\* base64 characters in lines of at most 76 characters; "\r\n" is written
\* after every 76th character and nowhere else, so every full line is
\* terminated by "\r\n" and a last, shorter line is not: the "\n" that begins
\* the boundary line follows its last character.
C8_FullLinesCRLF ==
    Composed =>
        \A k \in 1..Len(order) :
            LET n == Len(msg.Attachments[order[k]])
                body == AttachmentBody(out, k)
                chars == 4 * CeilDiv(n, 3)
            IN  /\ C8_Common(n, body)
                /\ Len(body) = chars + 2 * (chars \div 76)
                /\ (chars % 76 # 0 => body[Len(body)] \notin {CR, LF})
                /\ out[BodyEnd(out, k)] = LF

C8_Witness ==
    /\ Composed
    /\ Len(order) = 2
    /\ \E k \in 1..Len(order) :
        /\ Len(msg.Attachments[order[k]]) = 200
        /\ Len(AttachmentBody(out, k)) = 268 + 6
        /\ AttachmentBody(out, k)[Len(AttachmentBody(out, k))] = B64Pad

-----------------------------------------------------------------------------
AddressesOf(list) == {list[i].Address : i \in 1..Len(list)}

\* C9 (as stated): no operation of the Message model removes a recipient or an
\* attachment: every address of To, CC or BCC is still in its list after the
\* next call, and every attachment name is still a key of Attachments.
C9_NothingRemoved ==
    [][/\ AddressesOf(msg.To) \subseteq AddressesOf(msg'.To)
       /\ AddressesOf(msg.CC) \subseteq AddressesOf(msg'.CC)
       /\ AddressesOf(msg.BCC) \subseteq AddressesOf(msg'.BCC)
       /\ DOMAIN msg.Attachments \subseteq DOMAIN msg'.Attachments]_vars

SameAddresses(list, ss) ==
    Len(list) = Len(ss) /\ \A i \in 1..Len(ss) : list[i].Address = ss[i]

\* C9 (amended): no operation removes an attachment: every attachment name is
\* still a key of Attachments after the next call, and a successful AttachFile
\* adds its base name.  A recipient list is replaced by its own setter, which
\* leaves in it exactly the addresses of that call, and is changed by no other
\* operation.
C9_AttachmentsKeptListsReplaced ==
    [][/\ DOMAIN msg.Attachments \subseteq DOMAIN msg'.Attachments
       /\ \A path \in DOMAIN Files :
              AttachFileOf(path, TRUE) => path.name \in DOMAIN msg'.Attachments /\ lastErr' = "nil"
       /\ \A ss \in SeqsUpTo(ToAddrs, MaxRcpt) :
              SetToFromStringsOf(ss) => SameAddresses(msg'.To, ss)
       /\ \A ss \in SeqsUpTo(CcAddrs, 1) :
              SetCcFromStringsOf(ss) => SameAddresses(msg'.CC, ss)
       /\ \A ss \in SeqsUpTo(BccAddrs, 1) :
              SetBccFromStringsOf(ss) => SameAddresses(msg'.BCC, ss)
       /\ msg'.To # msg.To => SetToFromStrings
       /\ msg'.CC # msg.CC => SetCcFromStrings
       /\ msg'.BCC # msg.BCC => SetBccFromStrings]_vars

C9_Witness ==
    /\ phase = "building"
    /\ NumAttachments = 2
    /\ AddressesOf(msg.To) = {"b@y"}
    /\ Len(msg.CC) = 1 /\ Len(msg.BCC) = 1
    /\ lastErr = "nil"

-----------------------------------------------------------------------------
\* C10: ToBytes uses two boundary tokens, B1 for the multipart/mixed envelope
\* and B2 for the multipart/alternative envelope nested in it, and B1 # B2: in
\* a message with attachments and both bodies the delimiter line between the
\* HTML part and the text part is no delimiter line of the mixed envelope.
C10_DistinctBoundaries ==
    (Composed /\ NumAttachments >= 1 /\ HasText /\ HasHtml) =>
        LET b1 == BoundaryOfEnvelope(out, "multipart/mixed")
            b2 == BoundaryOfEnvelope(out, "multipart/alternative")
        IN  /\ b1 # "" /\ b2 # ""
            /\ b1 # b2
            /\ \A i \in Delims(out, b2) : ~IsDelimiterLine(out, i, b1)


-----------------------------------------------------------------------------
(* Reading BCC in a Send *)

\* the BCC lists a Message that differs only in BCC may carry: none, one
\* address, an address of To, two addresses
BccVariants == {<<>>, <<"d@x">>, <<"a@x">>, <<"d@x", "a@x">>}

\* the Message with another BCC list and every other field as it is
WithBcc(m, bcc) == [m EXCEPT !.BCC = AddressList(bcc)]

\* the addresses the header lines name
HeaderAddresses == AddressesOf(<<msg.From>>) \cup AddressesOf(msg.To) \cup AddressesOf(msg.CC)

\* the address was the argument of a RCPT TO
RcptIssuedFor(addr) == \E k \in 1..Len(trace) : trace[k].step = "RCPT" /\ trace[k].arg = addr

\* C11: the bytes a Send writes do not depend on BCC: for the boundary token
\* and the visiting order of the attachments drawn by the call, every Message
\* that differs from the one sent only in its BCC list composes to the same
\* bytes, which hold no Bcc header and no address that is only in BCC; and
\* once the recipients loops are over, every BCC address has been given to the
\* server by a RCPT TO, after those of To and CC.
C11_BccOnlyInEnvelope ==
    /\ Issued("BYTES") =>
          /\ \A bcc \in BccVariants : out = ToBytes(WithBcc(msg, bcc), writer, order)
          /\ "Bcc: " \notin Range(out)
          /\ \A a \in AddressesOf(msg.BCC) \ HeaderAddresses : a \notin Range(out)
    /\ (Accepted("MAIL") /\ pc # "rcpt") =>
          /\ \A a \in AddressesOf(msg.BCC) : RcptIssuedFor(a)
          /\ \A i \in 1..Len(msg.BCC) :
                AfterMail[Len(msg.To) + Len(msg.CC) + i] =
                    [step |-> "RCPT", arg |-> msg.BCC[i].Address,
                     ok |-> AfterMail[Len(msg.To) + Len(msg.CC) + i].ok]

C11_Witness ==
    /\ Done /\ ret = Nil
    /\ AddressesOf(msg.To) = {"a@x"} /\ Len(msg.CC) = 1
    /\ AddressesOf(msg.BCC) = {"d@x"}
    /\ Cardinality(DOMAIN msg.Attachments) = 2
    /\ Accepted("BYTES")
    /\ "To: " \in Range(out) /\ "a@x" \in Range(out) /\ "c@x" \in Range(out)
    /\ "d@x" \notin Range(out)
    /\ \E k \in 1..Len(trace) : trace[k] = [step |-> "RCPT", arg |-> "d@x", ok |-> TRUE]

=============================================================================
